---- MODULE Spec2Model ----
(***************************************************************************)
(* Model of the orchestrator backend route                                 *)
(*   GET /workflows/:workflowId/inputSchema                                *)
(* (plugins/orchestrator-backend/src/service/router.ts, lines 393-514).    *)
(* One request is followed from its arrival through every await point of   *)
(* the handler down to the response (or the thrown error).  The results of *)
(* the collaborator calls are chosen by the environment.                   *)
(***************************************************************************)
EXTENDS Integers, Sequences, FiniteSets, TLC

\* ------------------------------------------------------------------ bounds
MaxFields == 3
MaxValues == 2

FieldNames == <<"name", "age", "email", "phone", "city">>
Fields == {FieldNames[i] : i \in 1..MaxFields}

\* JSON values an instance variable can hold; 0 stands for `undefined`
undefined == 0
JsonValues == 1..MaxValues

\* ------------------------------------------------------ instance variables
\* workflow data read under WORKFLOW_DATA_KEY: a lookup by field name that
\* yields a value or undefined; present = FALSE is the falsy (missing) data
NoData == [f \in Fields |-> undefined]
AbsentWorkflowData == [present |-> FALSE, data |-> NoData]
WorkflowDatas ==
  {AbsentWorkflowData} \cup
  {[present |-> TRUE, data |-> d] : d \in [Fields -> JsonValues \cup {undefined}]}

\* result of fetchProcessInstanceVariables: undefined, or the variables with
\* or without the workflow-data key
UndefinedVariables == [defined |-> FALSE, workflowData |-> AbsentWorkflowData]
InstanceVariablesResults ==
  {UndefinedVariables} \cup {[defined |-> TRUE, workflowData |-> w] : w \in WorkflowDatas}

\* instanceVariables?.[WORKFLOW_DATA_KEY]
WorkflowDataOf(variables) ==
  IF variables.defined THEN variables.workflowData ELSE AbsentWorkflowData

\* if (instanceWorkflowData)
Truthy(workflowData) == workflowData.present

\* ------------------------------------------------------------ input schemas
\* an input-schema document: flat (one member, the schema itself) or a
\* composition of members; a member that lacks the minimal shape is malformed
Member(props) == [wellFormed |-> TRUE, properties |-> props]
MalformedMember == [wellFormed |-> FALSE, properties |-> <<>>]
Prefix(k) == SubSeq(FieldNames, 1, k)
Suffix(k) == SubSeq(FieldNames, k + 1, MaxFields)

InputSchemas ==
  {[composed |-> FALSE, members |-> <<Member(Prefix(MaxFields))>>]} \cup
  {[composed |-> TRUE, members |-> <<Member(Prefix(k)), Member(Suffix(k))>>] :
      k \in 1..(MaxFields - 1)} \cup
  {[composed |-> TRUE, members |-> <<Member(Prefix(1)), Member(Prefix(2))>>]} \cup
  {[composed |-> TRUE, members |-> <<Member(Prefix(1)), MalformedMember>>]}

NoInputSchema == [composed |-> FALSE, members |-> <<>>]

\* parseComposition throws (SchemaError) on a malformed member
ParseThrows(inputSchema) ==
  \E i \in 1..Len(inputSchema.members) : ~inputSchema.members[i].wellFormed

\* parseComposition: one fragment per member, in declaration order
parseComposition(inputSchema) ==
  [i \in 1..Len(inputSchema.members) |->
     [properties |-> inputSchema.members[i].properties]]

\* a JSON object is the sequence of its <<key, value>> entries in insertion
\* order
FragmentValues(data, schema) ==
  LET known == SelectSeq(schema.properties, LAMBDA f : data[f] # undefined)
  IN  [i \in 1..Len(known) |-> <<known[i], data[known[i]]>>]

\* extractInitialStateFromWorkflowData: one mapping per fragment, fields
\* without a known value omitted
extractInitialStateFromWorkflowData(workflowData, schemas) ==
  [i \in 1..Len(schemas) |-> FragmentValues(workflowData.data, schemas[i])]


\* ------------------------------------------------- merge rules of the route
RECURSIVE Flat(_)
\* Array.prototype.flat() on an array of arrays
Flat(arrays) ==
  IF arrays = <<>> THEN <<>> ELSE Head(arrays) \o Flat(Tail(arrays))

\* Object.keys(item).filter(key => item[key] !== undefined)
DefinedKeys(item) ==
  LET kept == SelectSeq(item, LAMBDA e : e[2] # undefined)
  IN  [i \in 1..Len(kept) |-> kept[i][1]]

\* assessmentInstanceInitialState.map(...).flat()
ReadonlyKeysOf(state) == Flat([i \in 1..Len(state) |-> DefinedKeys(state[i])])

\* let initialState = []; if (instanceWorkflowData) initialState = extract(...)
PrimaryInitialState(variables, schemas) ==
  IF Truthy(WorkflowDataOf(variables))
  THEN extractInitialStateFromWorkflowData(WorkflowDataOf(variables), schemas)
  ELSE <<>>

\* variant: the assessment's fields fill in, fragment by fragment, what the
\* primary state lacks
FinalInitialStateFieldwise(initialState, assessmentWorkflowData, schemas) ==
  IF Truthy(assessmentWorkflowData)
  THEN [i \in 1..Len(schemas) |->
          LET own == IF i <= Len(initialState) THEN initialState[i] ELSE <<>>
              ownKeys == {own[j][1] : j \in 1..Len(own)}
              other == FragmentValues(assessmentWorkflowData.data, schemas[i])
          IN  own \o SelectSeq(other, LAMBDA e : e[1] \notin ownKeys)]
  ELSE initialState

\* variant: the check that assessment workflow data exists is left out
FinalInitialStateUnguarded(initialState, assessmentWorkflowData, schemas) ==
  IF Len(initialState) = 0
  THEN extractInitialStateFromWorkflowData(assessmentWorkflowData, schemas)
  ELSE initialState

\* if (assessmentInstanceWorkflowData) { if (initialState.length === 0)
\*   initialState = assessmentInstanceInitialState; }
FinalInitialState(initialState, assessmentWorkflowData, schemas) ==
  IF Truthy(assessmentWorkflowData) /\ Len(initialState) = 0
  THEN extractInitialStateFromWorkflowData(assessmentWorkflowData, schemas)
  ELSE initialState

\* let readonlyKeys = []; if (assessmentInstanceWorkflowData) readonlyKeys = ...
FinalReadonlyKeys(assessmentWorkflowData, schemas) ==
  IF Truthy(assessmentWorkflowData)
  THEN ReadonlyKeysOf(extractInitialStateFromWorkflowData(assessmentWorkflowData, schemas))
  ELSE <<>>

\* ------------------------------------------------------ collaborator results
NoParam == ""
InstanceIdParams == {NoParam, "instance-1"}
AssessmentInstanceIdParams == {NoParam, "assessment-1"}

NoServiceUrl == ""
WorkflowDefinitionResults == {[serviceUrl |-> NoServiceUrl], [serviceUrl |-> "http://service"]}
\* variant: the serviceUrl check is left out
ServiceUrlAssumed(workflowDefinition) == TRUE
HasServiceUrl(workflowDefinition) == workflowDefinition.serviceUrl # NoServiceUrl

UndefinedDefinition == [defined |-> FALSE, dataInputSchema |-> FALSE]
DefinitionResults ==
  {UndefinedDefinition} \cup {[defined |-> TRUE, dataInputSchema |-> b] : b \in BOOLEAN}
\* variant: the dataInputSchema check is left out
DataInputSchemaAssumed(def) == TRUE
HasDataInputSchema(def) == def.dataInputSchema

NoUri == ""
UriResults == {NoUri, "file:///workflow.sw.yaml"}

UndefinedWorkflowInfo == [defined |-> FALSE, hasInputSchema |-> FALSE, inputSchema |-> NoInputSchema]
WorkflowInfoResults ==
  {UndefinedWorkflowInfo} \cup
  {[defined |-> TRUE, hasInputSchema |-> FALSE, inputSchema |-> NoInputSchema]} \cup
  {[defined |-> TRUE, hasInputSchema |-> TRUE, inputSchema |-> s] : s \in InputSchemas}

\* ---------------------------------------------------------------- responses
SendResponse(status, message) ==
  [status |-> status, send |-> message, schemas |-> <<>>, values |-> <<>>,
   readonlyKeys |-> <<>>]
JsonResponse(status, schemas, values, readonlyKeys) ==
  [status |-> status, send |-> "json", schemas |-> schemas, values |-> values,
   readonlyKeys |-> readonlyKeys]

NoDefinitionResponse == SendResponse(500, "Couldn't fetch workflow definition")
NoUriResponse == SendResponse(500, "Couldn't fetch workflow uri")
NoWorkflowInfoResponse == SendResponse(500, "Couldn't fetch workflow info")
\* variant: a runtime info without inputSchema is answered like a workflow
\* without input
NoInputSchemaResponseAccepted == JsonResponse(200, <<>>, <<>>, <<>>)
NoInputSchemaResponse == SendResponse(500, "Couldn't fetch workflow input schema")
\* the response built before the schema is looked at
EmptyResponse == JsonResponse(200, <<>>, <<>>, <<>>)
\* variant: an empty initial state is reported like the failed lookups above it
InputSchemaResponseStrict(schemas, values, readonlyKeys) ==
  IF values = <<>>
  THEN SendResponse(500, "Couldn't fetch workflow data")
  ELSE JsonResponse(200, schemas, values, readonlyKeys)
InputSchemaResponse(schemas, values, readonlyKeys) ==
  JsonResponse(200, schemas, values, readonlyKeys)

NoError == "none"
ServiceUrlError == "ServiceUrl is not defined for workflow"
SchemaError == "SchemaError"
Rejected == "collaborator call rejected"

\* ------------------------------------------------------------------- state
VARIABLES
  pc,                          \* the await the handler is suspended at
  instanceId,                  \* query parameter instanceId
  assessmentInstanceId,        \* query parameter assessmentInstanceId
  workflowDefinition,          \* result of getWorkflowDefinition
  definition,                  \* result of fetchWorkflowDefinition
  uri,                         \* result of fetchWorkflowUri
  workflowInfo,                \* result of fetchWorkflowInfo
  schemas,                     \* parseComposition(workflowInfo.inputSchema)
  instanceVariables,           \* variables of the primary instance
  assessmentInstanceVariables, \* variables of the assessment instance
  initialState,
  readonlyKeys,
  sent,                        \* responses sent through res, in order
  thrown,                      \* error the handler threw, or NoError
  calls,                       \* collaborator calls issued, in order
  args,                        \* the arguments of those calls, in the same order
  pending                      \* collaborator calls issued and not yet returned

request == <<instanceId, assessmentInstanceId>>
locals == <<workflowDefinition, definition, uri, workflowInfo, schemas,
            instanceVariables, assessmentInstanceVariables, initialState,
            readonlyKeys>>
control == <<pc, sent, thrown, calls, args, pending>>
vars == <<request, locals, control>>

GetWorkflowDefinition == "getWorkflowDefinition"
FetchWorkflowDefinition == "fetchWorkflowDefinition"
FetchWorkflowUri == "fetchWorkflowUri"
FetchWorkflowInfo == "fetchWorkflowInfo"
FetchInstanceVariables == "fetchProcessInstanceVariables(instanceId)"
FetchAssessmentVariables == "fetchProcessInstanceVariables(assessmentInstanceId)"
Collaborators ==
  {GetWorkflowDefinition, FetchWorkflowDefinition, FetchWorkflowUri,
   FetchWorkflowInfo, FetchInstanceVariables, FetchAssessmentVariables}

\* the variables of the other parts of the repository, declared further down
\* with their initial values; no step of this route touches them
VARIABLES
  current,                     \* the request whose continuation is running
  saved                        \* the closures of the suspended requests

\* ------------------------------------------------- notifications: the table
VARIABLES
  messages,                    \* the rows of the messages table, in insertion order
  filter,                      \* the NotificationsFilter of the client's queries
  lastCall,                    \* the latest getNotifications call and its result
  lastCount                    \* the latest getNotificationsCount result

queryVars == <<filter, lastCall, lastCount>>

MaxMessages == 2
MaxPage == 2

\* title and message of the rows that get inserted; <<>> is no message
RowTexts ==
  {[title |-> <<"A", "x">>, message |-> <<>>],
   [title |-> <<"b">>, message |-> <<"y", "a">>],
   [title |-> <<"b">>, message |-> <<>>]}

\* filter.containsText (<<>>: not given) and filter.createdAfter (0: not given)
Filters == [containsText : {<<>>, <<"a">>}, createdAfter : {0, 1}]
NoFilter == [containsText |-> <<>>, createdAfter |-> 0]

PageParams == (0 - 1)..MaxPage

Lower(ch) ==
  IF ch = "A" THEN "a" ELSE IF ch = "B" THEN "b" ELSE IF ch = "X" THEN "x"
  ELSE IF ch = "Y" THEN "y" ELSE ch
LowerAll(str) == [i \in 1..Len(str) |-> Lower(str[i])]

\* column ILIKE '%text%'
ILike(column, text) ==
  \E i \in 1..(Len(column) - Len(text) + 1) :
    LowerAll(SubSeq(column, i, i + Len(text) - 1)) = LowerAll(text)

\* addFilter: the where clauses the filter adds
Matches(row, f) ==
  /\ f.containsText # <<>>
       => ILike(row.title, f.containsText) \/ ILike(row.message, f.containsText)
  /\ f.createdAfter # 0 => row.created > f.createdAfter

\* the ids of the rows the filtered query selects
FilteredIds(table, f) == {i \in 1..Len(table) : Matches(table[i], f)}

\* the orders the database may return a set of rows in: the queries carry no
\* ORDER BY
Orders(ids) ==
  {order \in [1..Cardinality(ids) -> ids] :
     \A i, j \in 1..Cardinality(ids) : order[i] = order[j] => i = j}

\* query.limit(pageSize).offset((pageNumber - 1) * pageSize)
Window(order, pageSize, pageNumber) ==
  LET offset == (pageNumber - 1) * pageSize
      last == IF offset + pageSize < Len(order) THEN offset + pageSize ELSE Len(order)
  IN  IF offset + 1 > last THEN <<>> ELSE SubSeq(order, offset + 1, last)

PagingError == "pageSize and pageNumber must both be either 0 or greater than 0"

\* variant: only negative values are refused
InvalidPagingNegativeOnly(pageSize, pageNumber) == pageSize < 0 \/ pageNumber < 0

\* the check at the head of getNotifications
InvalidPaging(pageSize, pageNumber) ==
  \/ pageSize < 0
  \/ pageNumber < 0
  \/ pageSize = 0 /\ pageNumber > 0
  \/ pageSize > 0 /\ pageNumber = 0

NoCall ==
  [called |-> FALSE, pageSize |-> 0, pageNumber |-> 0, version |-> 0,
   error |-> NoError, queried |-> FALSE, rows |-> <<>>]
NoCount == [called |-> FALSE, version |-> 0, count |-> 0 - 1]

TableInit == messages = <<>>
QueryInit ==
  /\ filter = NoFilter
  /\ lastCall = NoCall
  /\ lastCount = NoCount

\* ------------------------------------- notifications: createNotification
VARIABLES
  cnPhase,                     \* where the createNotification call stands
  cnReq,                       \* its CreateNotificationRequest
  cnPending,                   \* the catalog lookups that have not returned
  cnIssued,                    \* the catalog lookups it has issued, in order
  cnError,                     \* the error it rejected with
  cnMsgId                      \* the msgid it returned

createVars == <<cnPhase, cnReq, cnPending, cnIssued, cnError, cnMsgId>>

\* the entities of the catalog, as <<kind, name>>
Catalog == {<<"group", "a">>, <<"group", "b">>, <<"user", "a">>, <<"user", "b">>}

\* req.targetGroups and req.targetUsers: not an array, or an array of names
NotArray == [isArray |-> FALSE, items |-> <<>>]
Array(items) == [isArray |-> TRUE, items |-> items]
TargetLists ==
  {NotArray, Array(<<>>), Array(<<"a">>), Array(<<"a", "b">>), Array(<<"x">>),
   Array(<<"a", "x">>), Array(<<"x", "a">>)}

CreateNotificationRequests ==
  [targetGroups : TargetLists, targetUsers : TargetLists, texts : RowTexts]
NoRequest == [targetGroups |-> NotArray, targetUsers |-> NotArray,
              texts |-> [title |-> <<>>, message |-> <<>>]]

\* "group:" + group, "user:" + user
RefsOf(kind, list) == [i \in 1..Len(list.items) |-> <<kind, list.items[i]>>]
GroupRefs(req) == RefsOf("group", req.targetGroups)
UserRefs(req) == RefsOf("user", req.targetUsers)

\* `group '${group}' does not exist`, `user '${user}' does not exist`
DoesNotExist(ref) == <<ref[1], " '", ref[2], "' does not exist">>

\* variant: the result of the lookup is not looked at
FoundUnchecked(ref) == TRUE

\* getEntityByRef(ref) resolves to an entity
Found(ref) == ref \in Catalog

NoMsgId == 0

CreateInit ==
  /\ cnPhase = "idle"
  /\ cnReq = NoRequest
  /\ cnPending = {}
  /\ cnIssued = <<>>
  /\ cnError = NoError
  /\ cnMsgId = NoMsgId

\* ------------------------------------------------ notifications: router
VARIABLES
  rPc,                         \* the await the router's handler stands at
  rOp,                         \* the operation that was requested
  rS2S,                        \* notificationsServiceToServiceAuthEnabled
  rToken,                      \* the request carries a bearer token
  rIdentity,                   \* what identity.getIdentity resolved to
  rAuthenticated,              \* tokenManager.authenticate(token) resolved
  rUser,                       \* what getLoggedInUser returned
  rPermission,                 \* the permission that was asked for
  rDecision,                   \* the result of permissions.authorize
  rError,                      \* the error the handler threw
  rDb                          \* the database operation that was invoked

routerVars ==
  <<rPc, rOp, rS2S, rToken, rIdentity, rAuthenticated, rUser, rPermission,
    rDecision, rError, rDb>>

Operations == {"createNotification", "getNotifications", "getNotificationsCount", "setRead"}
NoOperation == "none"

\* the permission each registered handler passes to checkPermission
PermissionOf(op) ==
  IF op = "createNotification" THEN "notificationsCreatePermission"
  ELSE IF op = "setRead" THEN "notificationsSetReadPermission"
  ELSE "notificationsReadPermission"
NoPermission == "none"

\* strings are sequences of characters
UserPrefix == <<"u", "s", "e", "r", ":">>
StartsWith(str, prefix) ==
  Len(str) >= Len(prefix) /\ SubSeq(str, 1, Len(prefix)) = prefix
Slice(str, start) == SubSeq(str, start + 1, Len(str))

DefaultServiceUser == <<"s", "e", "r", "v", "i", "c", "e">>

\* identity.userEntityRef: with the prefix, without it, the prefix alone, of
\* another kind, with the prefix twice, and the empty string
UserEntityRefs ==
  {UserPrefix \o <<"d", "/", "g">>,
   <<"d", "/", "g">>,
   UserPrefix,
   <<"g", "r", "o", "u", "p", ":", "x">>,
   UserPrefix \o UserPrefix \o <<"g">>,
   <<>>}

\* what identity.getIdentity resolves to: nothing, an identity without
\* userEntityRef, or an identity with one
NoIdentity == [present |-> FALSE, hasRef |-> FALSE, userEntityRef |-> <<>>]
IdentityResponses ==
  {NoIdentity, [present |-> TRUE, hasRef |-> FALSE, userEntityRef |-> <<>>]}
    \cup {[present |-> TRUE, hasRef |-> TRUE, userEntityRef |-> ref] :
            ref \in UserEntityRefs}

\* if (author): neither undefined nor the empty string
HasAuthor(identity) == identity.hasRef /\ identity.userEntityRef # <<>>

\* variant: the author is returned as it came
AuthorUnstripped(author) == author

\* lines 196-198
StripUserPrefix(author) ==
  IF StartsWith(author, UserPrefix) THEN Slice(author, Len(UserPrefix)) ELSE author

NoUser == [returned |-> FALSE, name |-> <<>>]
User(name) == [returned |-> TRUE, name |-> name]

Allow == "ALLOW"
Deny == "DENY"
NoDecision == "none"

\* variant: no decision is taken as a refusal
DeniedNever(decision) == FALSE

\* decision.result === AuthorizeResult.DENY
Denied(decision) == decision = Deny

AuthenticationError == "AuthenticationError"
NotAllowedError == "NotAllowedError"
RejectedError == "rejected"

RouterInit ==
  /\ rPc = "idle"
  /\ rOp = NoOperation
  /\ rS2S = FALSE
  /\ rToken = FALSE
  /\ rIdentity = NoIdentity
  /\ rAuthenticated = FALSE
  /\ rUser = NoUser
  /\ rPermission = NoPermission
  /\ rDecision = NoDecision
  /\ rError = NoError
  /\ rDb = NoOperation

\* ------------------------------------------- NotificationsSidebarItem
VARIABLES
  sbError,                     \* the component's error state
  sbUnreadCount,               \* the component's unreadCount state
  sbPending,                   \* the polls whose getUnreadCount has not settled
  sbPolls,                     \* the polls started so far
  sbIcon,                      \* the icon of the rendered SidebarItem
  sbHasNotifications           \* its hasNotifications property

sidebarVars ==
  <<sbError, sbUnreadCount, sbPending, sbPolls, sbIcon, sbHasNotifications>>

MaxCount == 3
MaxPolls == 5

UnreadCounts == 0..MaxCount
PollErrors == {"NetworkError", "ResponseError"}

NotificationsIcon == "NotificationsIcon"
NotificationsErrorIcon == "NotificationsErrorIcon"

\* lines 38-41
IconOf(error) ==
  IF error # NoError THEN NotificationsErrorIcon ELSE NotificationsIcon

\* variant: the error is not looked at
HasNotificationsOfCountAlone(error, unreadCount) == unreadCount # 0

\* hasNotifications={!error && !!unreadCount}
HasNotificationsOf(error, unreadCount) == error = NoError /\ unreadCount # 0

SidebarInit ==
  /\ sbError = NoError
  /\ sbUnreadCount = 0
  /\ sbPending = 0
  /\ sbPolls = 0
  /\ sbIcon = IconOf(NoError)
  /\ sbHasNotifications = HasNotificationsOf(NoError, 0)

outsideConcurrent == <<messages, queryVars, createVars, routerVars, sidebarVars>>
others == <<current, saved, outsideConcurrent>>

MaxRequests == 2
RequestIds == 1..MaxRequests

\* req.params.workflowId
WorkflowId == "workflow-1"

\* variant: the workflow id is passed where the service endpoint belongs
ArgumentsWithoutEndpoint(call) ==
  IF call = FetchInstanceVariables THEN <<instanceId>>
  ELSE IF call = FetchAssessmentVariables THEN <<assessmentInstanceId>>
  ELSE IF call = FetchWorkflowInfo THEN <<WorkflowId, WorkflowId>>
  ELSE <<WorkflowId>>

\* the arguments each collaborator is called with
ArgumentsOf(call) ==
  IF call = FetchInstanceVariables THEN <<instanceId>>
  ELSE IF call = FetchAssessmentVariables THEN <<assessmentInstanceId>>
  ELSE IF call = FetchWorkflowInfo THEN <<WorkflowId, workflowDefinition.serviceUrl>>
  ELSE <<WorkflowId>>

RouteInit ==
  /\ pc = "idle"
  /\ instanceId = NoParam
  /\ assessmentInstanceId = NoParam
  /\ workflowDefinition = [serviceUrl |-> NoServiceUrl]
  /\ definition = UndefinedDefinition
  /\ uri = NoUri
  /\ workflowInfo = UndefinedWorkflowInfo
  /\ schemas = <<>>
  /\ instanceVariables = UndefinedVariables
  /\ assessmentInstanceVariables = UndefinedVariables
  /\ initialState = <<>>
  /\ readonlyKeys = <<>>
  /\ sent = <<>>
  /\ thrown = NoError
  /\ calls = <<>>
  /\ args = <<>>
  /\ pending = {}

\* the handler's closure: everything one invocation of the handler holds
Closure ==
  [pc |-> pc, instanceId |-> instanceId,
   assessmentInstanceId |-> assessmentInstanceId,
   workflowDefinition |-> workflowDefinition, definition |-> definition,
   uri |-> uri, workflowInfo |-> workflowInfo, schemas |-> schemas,
   instanceVariables |-> instanceVariables,
   assessmentInstanceVariables |-> assessmentInstanceVariables,
   initialState |-> initialState, readonlyKeys |-> readonlyKeys,
   sent |-> sent, thrown |-> thrown, calls |-> calls, args |-> args,
   pending |-> pending]

\* the closure of an invocation that has not started
NewClosure ==
  [pc |-> "idle", instanceId |-> NoParam, assessmentInstanceId |-> NoParam,
   workflowDefinition |-> [serviceUrl |-> NoServiceUrl],
   definition |-> UndefinedDefinition, uri |-> NoUri,
   workflowInfo |-> UndefinedWorkflowInfo, schemas |-> <<>>,
   instanceVariables |-> UndefinedVariables,
   assessmentInstanceVariables |-> UndefinedVariables,
   initialState |-> <<>>, readonlyKeys |-> <<>>,
   sent |-> <<>>, thrown |-> NoError, calls |-> <<>>, args |-> <<>>,
   pending |-> {}]

ConcurrentInit ==
  /\ current = 1
  /\ saved = [r \in RequestIds |-> NewClosure]

OthersInit ==
  /\ ConcurrentInit
  /\ TableInit
  /\ QueryInit
  /\ CreateInit
  /\ RouterInit
  /\ SidebarInit

Init == RouteInit /\ OthersInit

\* ------------------------------------------------- how a step of the handler ends
\* await services.<collaborator>(...): the call is issued, the handler suspends
Await(call) ==
  /\ pc' = call
  /\ calls' = Append(calls, call)
  /\ args' = Append(args, ArgumentsOf(call))
  /\ pending' = {call}
  /\ UNCHANGED <<sent, thrown>>

\* variant: the return after the response is missing, the handler goes on to
\* the runtime-info lookup
RespondWithoutReturn(response) ==
  /\ pc' = FetchWorkflowInfo
  /\ sent' = Append(sent, response)
  /\ calls' = Append(calls, FetchWorkflowInfo)
  /\ args' = Append(args, ArgumentsOf(FetchWorkflowInfo))
  /\ pending' = {FetchWorkflowInfo}
  /\ UNCHANGED thrown

\* res.status(..).send(..) / res.status(..).json(..) followed by return
Respond(response) ==
  /\ pc' = "done"
  /\ sent' = Append(sent, response)
  /\ pending' = {}
  /\ UNCHANGED <<thrown, calls, args>>

\* throw: the handler ends without a response of its own
Throw(error) ==
  /\ pc' = "done"
  /\ thrown' = error
  /\ pending' = {}
  /\ UNCHANGED <<sent, calls, args>>

\* --------------------------------------------------- the handler, step by step
\* lines 488-513: assessment data, merge, response
AssessmentStep(variables, primaryState, sch) ==
  /\ assessmentInstanceVariables' = variables
  /\ initialState' = FinalInitialState(primaryState, WorkflowDataOf(variables), sch)
  /\ readonlyKeys' = FinalReadonlyKeys(WorkflowDataOf(variables), sch)
  /\ Respond(InputSchemaResponse(sch, initialState', readonlyKeys'))

\* lines 482-486: the assessment lookup is issued, or skipped without an id
IssueAssessmentLookup(primaryState, sch) ==
  IF assessmentInstanceId # NoParam
  THEN /\ initialState' = primaryState
       /\ UNCHANGED <<assessmentInstanceVariables, readonlyKeys>>
       /\ Await(FetchAssessmentVariables)
  ELSE AssessmentStep(UndefinedVariables, primaryState, sch)

\* lines 470-486: primary data, then on to the assessment lookup
PrimaryStep(variables, sch) ==
  /\ instanceVariables' = variables
  /\ IssueAssessmentLookup(PrimaryInitialState(variables, sch), sch)

\* variant: both lookups are issued together, as with Promise.all
IssueBothLookups(sch) ==
  IF instanceId # NoParam /\ assessmentInstanceId # NoParam
  THEN /\ UNCHANGED <<instanceVariables, assessmentInstanceVariables,
                      initialState, readonlyKeys>>
       /\ pc' = FetchInstanceVariables
       /\ calls' = calls \o <<FetchInstanceVariables, FetchAssessmentVariables>>
       /\ args' = args \o <<<<instanceId>>, <<assessmentInstanceId>>>>
       /\ pending' = {FetchInstanceVariables, FetchAssessmentVariables}
       /\ UNCHANGED <<sent, thrown>>
  ELSE IF instanceId # NoParam
  THEN /\ UNCHANGED <<instanceVariables, assessmentInstanceVariables,
                      initialState, readonlyKeys>>
       /\ Await(FetchInstanceVariables)
  ELSE PrimaryStep(UndefinedVariables, sch)

\* lines 464-468: the primary lookup is issued, or skipped without an id
IssuePrimaryLookup(sch) ==
  IF instanceId # NoParam
  THEN /\ UNCHANGED <<instanceVariables, assessmentInstanceVariables,
                      initialState, readonlyKeys>>
       /\ Await(FetchInstanceVariables)
  ELSE PrimaryStep(UndefinedVariables, sch)

\* lines 393-405: the request arrives with its query parameters
HandleRequest ==
  /\ pc = "idle"
  /\ instanceId' \in InstanceIdParams
  /\ assessmentInstanceId' \in AssessmentInstanceIdParams
  /\ Await(GetWorkflowDefinition)
  /\ UNCHANGED locals
  /\ UNCHANGED others

\* lines 404-413
ReturnGetWorkflowDefinition ==
  /\ pc = GetWorkflowDefinition
  /\ \E result \in WorkflowDefinitionResults :
       /\ workflowDefinition' = result
       /\ IF ~HasServiceUrl(result)
          THEN Throw(ServiceUrlError)
          ELSE Await(FetchWorkflowDefinition)
  /\ UNCHANGED <<request, definition, uri, workflowInfo, schemas,
                 instanceVariables, assessmentInstanceVariables, initialState,
                 readonlyKeys>>
  /\ UNCHANGED others

\* lines 412-420
ReturnFetchWorkflowDefinition ==
  /\ pc = FetchWorkflowDefinition
  /\ \E result \in DefinitionResults :
       /\ definition' = result
       /\ IF ~result.defined
          THEN Respond(NoDefinitionResponse)
          ELSE Await(FetchWorkflowUri)
  /\ UNCHANGED <<request, workflowDefinition, uri, workflowInfo, schemas,
                 instanceVariables, assessmentInstanceVariables, initialState,
                 readonlyKeys>>
  /\ UNCHANGED others

\* lines 420-446
ReturnFetchWorkflowUri ==
  /\ pc = FetchWorkflowUri
  /\ \E result \in UriResults :
       /\ uri' = result
       /\ IF result = NoUri
          THEN Respond(NoUriResponse)
          ELSE IF ~HasDataInputSchema(definition)
               THEN Respond(EmptyResponse)
               ELSE Await(FetchWorkflowInfo)
  /\ UNCHANGED <<request, workflowDefinition, definition, workflowInfo, schemas,
                 instanceVariables, assessmentInstanceVariables, initialState,
                 readonlyKeys>>
  /\ UNCHANGED others

\* lines 443-513
ReturnFetchWorkflowInfo ==
  /\ pc = FetchWorkflowInfo
  /\ \E result \in WorkflowInfoResults :
       /\ workflowInfo' = result
       /\ IF ~result.defined \/ ~result.hasInputSchema \/ ParseThrows(result.inputSchema)
          THEN /\ IF ~result.defined THEN Respond(NoWorkflowInfoResponse)
                  ELSE IF ~result.hasInputSchema THEN Respond(NoInputSchemaResponse)
                  ELSE Throw(SchemaError)
               /\ UNCHANGED <<schemas, instanceVariables,
                              assessmentInstanceVariables, initialState,
                              readonlyKeys>>
          ELSE /\ schemas' = parseComposition(result.inputSchema)
               /\ IssuePrimaryLookup(schemas')
  /\ UNCHANGED <<request, workflowDefinition, definition, uri>>
  /\ UNCHANGED others

\* lines 464-513
ReturnInstanceVariables ==
  /\ pc = FetchInstanceVariables
  /\ \E result \in InstanceVariablesResults : PrimaryStep(result, schemas)
  /\ UNCHANGED <<request, workflowDefinition, definition, uri, workflowInfo,
                 schemas>>
  /\ UNCHANGED others

\* lines 482-513
ReturnAssessmentInstanceVariables ==
  /\ pc = FetchAssessmentVariables
  /\ \E result \in InstanceVariablesResults :
       AssessmentStep(result, initialState, schemas)
  /\ UNCHANGED <<request, workflowDefinition, definition, uri, workflowInfo,
                 schemas, instanceVariables>>
  /\ UNCHANGED others

\* an awaited collaborator call rejects: the await throws inside the handler
CollaboratorRejects ==
  /\ pc \in Collaborators
  /\ Throw(Rejected)
  /\ UNCHANGED <<request, locals>>
  /\ UNCHANGED others

Next ==
  \/ HandleRequest
  \/ ReturnGetWorkflowDefinition
  \/ ReturnFetchWorkflowDefinition
  \/ ReturnFetchWorkflowUri
  \/ ReturnFetchWorkflowInfo
  \/ ReturnInstanceVariables
  \/ ReturnAssessmentInstanceVariables
  \/ CollaboratorRejects

Spec == Init /\ [][Next]_vars

\* ------------------------------------------------------------------ claims
Range(seq) == {seq[i] : i \in 1..Len(seq)}

\* the handler answered 200 after parsing a runtime input schema
Answered ==
  /\ pc = "done"
  /\ workflowInfo.hasInputSchema
  /\ sent # <<>>
  /\ sent[1].status = 200

\* the fields the parsed fragments name
SchemaFields == UNION {Range(schemas[i].properties) : i \in 1..Len(schemas)}

\* the fields of the fragments that have a value in the data of a lookup result
ResolvedFields(variables) ==
  IF variables.defined /\ variables.workflowData.present
  THEN {f \in SchemaFields : variables.workflowData.data[f] # undefined}
  ELSE {}

\* the fields carried by an initial state
CarriedFields(state) ==
  UNION {{state[i][j][1] : j \in 1..Len(state[i])} : i \in 1..Len(state)}

\* C1: whenever the primary instance resolves at least one field of some
\* fragment, the returned readonlyKeys is empty, whatever the assessment holds.
C1_ReadonlyKeysEmptyWhenPrimaryResolves ==
  (Answered /\ ResolvedFields(instanceVariables) # {})
    => sent[1].readonlyKeys = <<>>

\* C2: in every 200 response initialState.values has the same length as
\* schemas.
C2_ValuesLengthEqualsSchemas ==
  \A i \in 1..Len(sent) :
    sent[i].status = 200 => Len(sent[i].values) = Len(sent[i].schemas)

\* C3: if the primary instance resolves no field (its data may exist) and the
\* assessment resolves at least one, the values are the assessment's initial
\* state and readonlyKeys is exactly the set of the assessment's defined fields.
C3_AssessmentFallback ==
  (/\ Answered
   /\ ResolvedFields(instanceVariables) = {}
   /\ ResolvedFields(assessmentInstanceVariables) # {})
    => /\ sent[1].values =
            [i \in 1..Len(schemas) |->
               FragmentValues(assessmentInstanceVariables.workflowData.data, schemas[i])]
       /\ Range(sent[1].readonlyKeys) = ResolvedFields(assessmentInstanceVariables)

\* fetchWorkflowInfo returned a result that carries no inputSchema
InfoWithoutInputSchema ==
  pc = "done" /\ workflowInfo.defined /\ ~workflowInfo.hasInputSchema

\* C4 (as claimed): a runtime-info result without inputSchema does not fail the
\* request and is not reported as an error status.
C4_MissingInputSchemaIsNotAnError ==
  InfoWithoutInputSchema
    => thrown = NoError /\ Len(sent) = 1 /\ sent[1].status < 400

\* C4 (amended): a runtime-info result without inputSchema is answered with
\* status 500 "Couldn't fetch workflow input schema", and no instance-variable
\* lookup is issued.
C4_MissingInputSchemaIs500 ==
  InfoWithoutInputSchema
    => /\ thrown = NoError
       /\ Len(sent) = 1
       /\ sent[1].status = 500
       /\ sent[1].send = "Couldn't fetch workflow input schema"
       /\ calls[Len(calls)] = FetchWorkflowInfo

C4_Witness == InfoWithoutInputSchema /\ sent # <<>> /\ instanceId # NoParam

\* the definition and the uri were fetched and the definition declares no
\* dataInputSchema
NoDeclaredInputSchema ==
  /\ pc \notin {"idle", GetWorkflowDefinition, FetchWorkflowDefinition, FetchWorkflowUri}
  /\ definition.defined
  /\ ~definition.dataInputSchema
  /\ uri # NoUri

\* C5: without a declared input schema the handler answers 200 with empty
\* schemas, values and readonlyKeys at once: neither the runtime-info lookup nor
\* an instance-variable lookup is issued, whatever ids were supplied.
C5_NoDeclaredSchemaReturnsImmediately ==
  NoDeclaredInputSchema
    => /\ pc = "done"
       /\ thrown = NoError
       /\ Len(sent) = 1
       /\ sent[1].status = 200
       /\ sent[1].send = "json"
       /\ sent[1].schemas = <<>>
       /\ sent[1].values = <<>>
       /\ sent[1].readonlyKeys = <<>>
       /\ calls = <<GetWorkflowDefinition, FetchWorkflowDefinition, FetchWorkflowUri>>
       /\ pending = {}

C5_Witness ==
  /\ NoDeclaredInputSchema
  /\ sent # <<>>
  /\ instanceId # NoParam
  /\ assessmentInstanceId # NoParam

\* getWorkflowDefinition returned a definition without a serviceUrl
DefinitionWithoutServiceUrl ==
  /\ pc \notin {"idle", GetWorkflowDefinition}
  /\ thrown # Rejected
  /\ workflowDefinition.serviceUrl = NoServiceUrl

\* C6: a workflow definition without a service endpoint fails the request with
\* the "ServiceUrl is not defined" error, no response of the handler's own is
\* sent, and no collaborator is called after getWorkflowDefinition.
C6_NoServiceUrlFailsWithoutFurtherCalls ==
  DefinitionWithoutServiceUrl
    => /\ pc = "done"
       /\ thrown = ServiceUrlError
       /\ sent = <<>>
       /\ calls = <<GetWorkflowDefinition>>
       /\ pending = {}

C6_Witness == DefinitionWithoutServiceUrl /\ thrown = ServiceUrlError

\* the definition, the uri, the runtime info and the parse succeeded and no
\* later lookup rejected
ResolvedThroughParsing ==
  /\ pc = "done"
  /\ workflowInfo.hasInputSchema
  /\ ~ParseThrows(workflowInfo.inputSchema)
  /\ thrown # Rejected

\* C7: once the schema is parsed, a primary or assessment lookup that returns
\* absent never fails the request: the answer is 200 for every combination of
\* absent and present data, an absent role contributing no data.
C7_AbsentInstanceDataIsNotFatal ==
  ResolvedThroughParsing
    => /\ thrown = NoError
       /\ Len(sent) = 1
       /\ sent[1].status = 200
       /\ sent[1].send = "json"
       /\ CarriedFields(sent[1].values) \subseteq
            ResolvedFields(instanceVariables) \cup ResolvedFields(assessmentInstanceVariables)

C7_Witness ==
  /\ ResolvedThroughParsing
  /\ instanceId # NoParam
  /\ assessmentInstanceId # NoParam
  /\ ~instanceVariables.defined
  /\ assessmentInstanceVariables.defined
  /\ ~assessmentInstanceVariables.workflowData.present
  /\ sent # <<>>

BothIdsSupplied == instanceId # NoParam /\ assessmentInstanceId # NoParam

TakenFrom(state, variables) ==
  \A i \in 1..Len(state) : \A j \in 1..Len(state[i]) :
    /\ variables.defined
    /\ variables.workflowData.present
    /\ state[i][j][2] = variables.workflowData.data[state[i][j][1]]

\* C9: the returned values come entirely from the primary instance or entirely
\* from the assessment instance, never a field of one together with a field of
\* the other.
C9_NoInterleaving ==
  \A i \in 1..Len(sent) :
    \/ TakenFrom(sent[i].values, instanceVariables)
    \/ TakenFrom(sent[i].values, assessmentInstanceVariables)

C9_Witness ==
  /\ Answered
  /\ CarriedFields(sent[1].values) # {}
  /\ ResolvedFields(instanceVariables) # {}
  /\ ResolvedFields(assessmentInstanceVariables) # {}
  /\ ResolvedFields(assessmentInstanceVariables) # ResolvedFields(instanceVariables)
  /\ ~TakenFrom(sent[1].values, assessmentInstanceVariables)

\* no workflow data came back for the assessment instance
AssessmentAbsent ==
  ~(assessmentInstanceVariables.defined /\ assessmentInstanceVariables.workflowData.present)

\* C10: if the primary instance resolves no field and the assessment is absent,
\* the values are the primary initial state unchanged (no mapping at all without
\* primary workflow data, one empty mapping per fragment with it) and
\* readonlyKeys is empty.
C10_EmptyPrimaryWithoutAssessment ==
  (Answered /\ ResolvedFields(instanceVariables) = {} /\ AssessmentAbsent)
    => /\ sent[1].readonlyKeys = <<>>
       /\ sent[1].values =
            IF instanceVariables.defined /\ instanceVariables.workflowData.present
            THEN [i \in 1..Len(schemas) |-> <<>>]
            ELSE <<>>

C10_Witness ==
  /\ Answered
  /\ BothIdsSupplied
  /\ instanceVariables.defined
  /\ instanceVariables.workflowData.present
  /\ ResolvedFields(instanceVariables) = {}
  /\ AssessmentAbsent
  /\ Len(schemas) = 2

\* C11: fetchWorkflowInfo is issued only after getWorkflowDefinition has
\* returned a definition with a service endpoint, and it is called with exactly
\* that endpoint; it is never issued before or while that lookup is pending.
C11_RuntimeInfoAfterDefinition ==
  \A i \in 1..Len(calls) :
    calls[i] = FetchWorkflowInfo
      => /\ \E j \in 1..(i - 1) : calls[j] = GetWorkflowDefinition
         /\ GetWorkflowDefinition \notin pending
         /\ workflowDefinition.serviceUrl # NoServiceUrl
         /\ args[i] = <<WorkflowId, workflowDefinition.serviceUrl>>

C11_Witness == pending = {FetchWorkflowInfo} /\ Len(args) = Len(calls)

\* ------------------------------------------- several requests, interleaved
\* Every invocation of the handler has its own closure.  The event loop runs one
\* continuation at a time; at an await another request's continuation may run.
\* The variables of the route hold the closure of the request that is running,
\* saved the closures of the others.

\* the collaborator results the interleaved requests are answered with
ConcurrentWorkflowInfoResults ==
  {UndefinedWorkflowInfo,
   [defined |-> TRUE, hasInputSchema |-> FALSE, inputSchema |-> NoInputSchema],
   [defined |-> TRUE, hasInputSchema |-> TRUE,
    inputSchema |-> [composed |-> TRUE,
                     members |-> <<Member(Prefix(1)), Member(Suffix(1))>>]]}
ConcurrentVariablesResults ==
  {UndefinedVariables,
   [defined |-> TRUE, workflowData |-> [present |-> TRUE, data |-> NoData]],
   [defined |-> TRUE,
    workflowData |-> [present |-> TRUE, data |-> [f \in Fields |-> 1]]]}

ClosureOf(r) == IF r = current THEN Closure ELSE saved[r]

\* variant: initialState is declared outside the handler and shared by all
\* invocations
ResumeSharingInitialState(closure) ==
  /\ pc' = closure.pc
  /\ instanceId' = closure.instanceId
  /\ assessmentInstanceId' = closure.assessmentInstanceId
  /\ workflowDefinition' = closure.workflowDefinition
  /\ definition' = closure.definition
  /\ uri' = closure.uri
  /\ workflowInfo' = closure.workflowInfo
  /\ schemas' = closure.schemas
  /\ instanceVariables' = closure.instanceVariables
  /\ assessmentInstanceVariables' = closure.assessmentInstanceVariables
  /\ initialState' = initialState
  /\ readonlyKeys' = closure.readonlyKeys
  /\ sent' = closure.sent
  /\ thrown' = closure.thrown
  /\ calls' = closure.calls
  /\ args' = closure.args
  /\ pending' = closure.pending

\* a suspended invocation goes on with the locals it was suspended with
Resume(closure) ==
  /\ pc' = closure.pc
  /\ instanceId' = closure.instanceId
  /\ assessmentInstanceId' = closure.assessmentInstanceId
  /\ workflowDefinition' = closure.workflowDefinition
  /\ definition' = closure.definition
  /\ uri' = closure.uri
  /\ workflowInfo' = closure.workflowInfo
  /\ schemas' = closure.schemas
  /\ instanceVariables' = closure.instanceVariables
  /\ assessmentInstanceVariables' = closure.assessmentInstanceVariables
  /\ initialState' = closure.initialState
  /\ readonlyKeys' = closure.readonlyKeys
  /\ sent' = closure.sent
  /\ thrown' = closure.thrown
  /\ calls' = closure.calls
  /\ args' = closure.args
  /\ pending' = closure.pending

\* the running request is suspended at its await (or has ended) and the event
\* loop turns to another request that has not ended; the requests are numbered
\* in the order they arrive
SwitchRequest ==
  \E r \in RequestIds \ {current} :
    /\ pc # "idle"
    /\ saved[r].pc # "done"
    /\ saved[r].pc = "idle" => \A q \in 1..(r - 1) : ClosureOf(q).pc # "idle"
    /\ current' = r
    /\ saved' = [saved EXCEPT ![current] = Closure, ![r] = NewClosure]
    /\ UNCHANGED outsideConcurrent
    /\ Resume(saved[r])

\* lines 443-513
ConcurrentReturnFetchWorkflowInfo ==
  /\ pc = FetchWorkflowInfo
  /\ \E result \in ConcurrentWorkflowInfoResults :
       /\ workflowInfo' = result
       /\ IF ~result.defined \/ ~result.hasInputSchema
          THEN /\ IF ~result.defined THEN Respond(NoWorkflowInfoResponse)
                  ELSE Respond(NoInputSchemaResponse)
               /\ UNCHANGED <<schemas, instanceVariables,
                              assessmentInstanceVariables, initialState,
                              readonlyKeys>>
          ELSE /\ schemas' = parseComposition(result.inputSchema)
               /\ IssuePrimaryLookup(schemas')
  /\ UNCHANGED <<request, workflowDefinition, definition, uri>>
  /\ UNCHANGED others

\* lines 464-513
ConcurrentReturnInstanceVariables ==
  /\ pc = FetchInstanceVariables
  /\ \E result \in ConcurrentVariablesResults : PrimaryStep(result, schemas)
  /\ UNCHANGED <<request, workflowDefinition, definition, uri, workflowInfo,
                 schemas>>
  /\ UNCHANGED others

\* lines 482-513
ConcurrentReturnAssessmentInstanceVariables ==
  /\ pc = FetchAssessmentVariables
  /\ \E result \in ConcurrentVariablesResults :
       AssessmentStep(result, initialState, schemas)
  /\ UNCHANGED <<request, workflowDefinition, definition, uri, workflowInfo,
                 schemas, instanceVariables>>
  /\ UNCHANGED others

NextConcurrent ==
  \/ HandleRequest
  \/ ReturnGetWorkflowDefinition
  \/ ReturnFetchWorkflowDefinition
  \/ ReturnFetchWorkflowUri
  \/ ConcurrentReturnFetchWorkflowInfo
  \/ ConcurrentReturnInstanceVariables
  \/ ConcurrentReturnAssessmentInstanceVariables
  \/ CollaboratorRejects
  \/ SwitchRequest

SpecConcurrent == Init /\ [][NextConcurrent]_<<vars, others>>

\* what the handler answers when it runs on the parameters and the collaborator
\* results of one closure alone
ResponsesFor(c) ==
  LET sch == parseComposition(c.workflowInfo.inputSchema)
      primary == PrimaryInitialState(c.instanceVariables, sch)
      assessment == WorkflowDataOf(c.assessmentInstanceVariables)
  IN  IF c.thrown = Rejected \/ c.workflowDefinition.serviceUrl = NoServiceUrl
      THEN <<>>
      ELSE IF ~c.definition.defined
      THEN <<SendResponse(500, "Couldn't fetch workflow definition")>>
      ELSE IF c.uri = NoUri
      THEN <<SendResponse(500, "Couldn't fetch workflow uri")>>
      ELSE IF ~c.definition.dataInputSchema
      THEN <<JsonResponse(200, <<>>, <<>>, <<>>)>>
      ELSE IF ~c.workflowInfo.defined
      THEN <<SendResponse(500, "Couldn't fetch workflow info")>>
      ELSE IF ~c.workflowInfo.hasInputSchema
      THEN <<SendResponse(500, "Couldn't fetch workflow input schema")>>
      ELSE IF ParseThrows(c.workflowInfo.inputSchema)
      THEN <<>>
      ELSE <<JsonResponse(200, sch,
                          FinalInitialState(primary, assessment, sch),
                          FinalReadonlyKeys(assessment, sch))>>

\* C12: when requests run interleaved at their await points, the responses of
\* each request are those its own parameters and the collaborator results
\* returned to it give; nothing another request wrote shows in them.
C12_RequestsAreIndependent ==
  \A r \in RequestIds :
    ClosureOf(r).pc = "done" => ClosureOf(r).sent = ResponsesFor(ClosureOf(r))

C12_Witness ==
  /\ current = 1
  /\ Answered
  /\ saved[2].pc = FetchAssessmentVariables
  /\ saved[2].initialState # <<>>
  /\ initialState # saved[2].initialState
  /\ CarriedFields(sent[1].values) # {}

\* ------------------------------------------- notifications: the queries
\* what the specifications of the other parts leave alone
outsideQuery == <<vars, current, saved, createVars, routerVars, sidebarVars>>

\* the row createNotification inserts; id and created are set by the database
InsertRow(table, texts) ==
  Append(table, [id |-> Len(table) + 1, created |-> Len(table) + 1,
                 title |-> texts.title, message |-> texts.message])

\* createNotification, lines 40-53: a row is inserted
InsertMessage ==
  /\ Len(messages) < MaxMessages
  /\ \E texts \in RowTexts : messages' = InsertRow(messages, texts)
  /\ UNCHANGED <<queryVars, outsideQuery>>

\* getNotifications, lines 59-95
GetNotifications ==
  /\ \E pageSize \in PageParams, pageNumber \in PageParams :
       IF InvalidPaging(pageSize, pageNumber)
       THEN lastCall' = [called |-> TRUE, pageSize |-> pageSize,
                         pageNumber |-> pageNumber, version |-> Len(messages),
                         error |-> PagingError, queried |-> FALSE, rows |-> <<>>]
       ELSE \E order \in Orders(FilteredIds(messages, filter)) :
              lastCall' = [called |-> TRUE, pageSize |-> pageSize,
                           pageNumber |-> pageNumber, version |-> Len(messages),
                           error |-> NoError, queried |-> TRUE,
                           rows |-> IF pageNumber > 0
                                    THEN Window(order, pageSize, pageNumber)
                                    ELSE order]
  /\ UNCHANGED <<messages, filter, lastCount, outsideQuery>>

\* getNotificationsCount, lines 97-110
GetNotificationsCount ==
  /\ lastCount' = [called |-> TRUE, version |-> Len(messages),
                   count |-> Cardinality(FilteredIds(messages, filter))]
  /\ UNCHANGED <<messages, filter, lastCall, outsideQuery>>

InitQuery ==
  /\ RouteInit
  /\ ConcurrentInit
  /\ TableInit
  /\ CreateInit
  /\ RouterInit
  /\ SidebarInit
  /\ filter \in Filters
  /\ lastCall = NoCall
  /\ lastCount = NoCount

NextQuery ==
  \/ InsertMessage
  \/ GetNotifications
  \/ GetNotificationsCount

SpecQuery == InitQuery /\ [][NextQuery]_<<messages, queryVars>>

\* C13: getNotifications fails with the paging error exactly when pageSize < 0,
\* pageNumber < 0 or exactly one of the two is 0, and then no query is run; for
\* every other pair it does not fail with that error.
C13_PagingValidation ==
  lastCall.called
    => /\ lastCall.error = PagingError
            <=> \/ lastCall.pageSize < 0
                \/ lastCall.pageNumber < 0
                \/ (lastCall.pageSize = 0) # (lastCall.pageNumber = 0)
       /\ lastCall.error = PagingError => ~lastCall.queried /\ lastCall.rows = <<>>
       /\ lastCall.error # PagingError => lastCall.error = NoError /\ lastCall.queried

C13_Witness ==
  /\ lastCall.called
  /\ lastCall.error = PagingError
  /\ lastCall.pageSize = 0
  /\ lastCall.pageNumber > 0
  /\ ~lastCall.queried
  /\ FilteredIds(messages, filter) # {}

\* ------------------------------------- notifications: createNotification
outsideCreate == <<vars, current, saved, queryVars, routerVars, sidebarVars>>

\* lines 40-53: the row is built and the insert is issued
StartInsert(issued) == [phase |-> "insert", pending |-> {}, issued |-> issued]

\* lines 25-38: the user lookups are issued together and awaited
StartUsers(req, issued) ==
  IF req.targetUsers.isArray /\ req.targetUsers.items # <<>>
  THEN [phase |-> "users", pending |-> Range(UserRefs(req)),
        issued |-> issued \o UserRefs(req)]
  ELSE StartInsert(issued)

\* lines 11-23: the group lookups are issued together and awaited
StartGroups(req) ==
  IF req.targetGroups.isArray /\ req.targetGroups.items # <<>>
  THEN [phase |-> "groups", pending |-> Range(GroupRefs(req)),
        issued |-> GroupRefs(req)]
  ELSE StartUsers(req, <<>>)

\* createNotification is called
CreateNotification ==
  /\ cnPhase \in {"idle", "done", "rejected"}
  /\ cnPending = {}
  /\ Len(messages) < MaxMessages
  /\ \E req \in CreateNotificationRequests :
       /\ cnReq' = req
       /\ cnPhase' = StartGroups(req).phase
       /\ cnPending' = StartGroups(req).pending
       /\ cnIssued' = StartGroups(req).issued
  /\ cnError' = NoError
  /\ cnMsgId' = NoMsgId
  /\ UNCHANGED <<messages, outsideCreate>>

\* a catalog lookup returns: the then-callback of lines 14-18 / 28-32 runs, and
\* Promise.all rejects on the first throw or resolves after the last return
CatalogReturns ==
  \E ref \in cnPending :
    LET rest == cnPending \ {ref}
        next == IF cnPhase = "groups"
                THEN StartUsers(cnReq, cnIssued)
                ELSE StartInsert(cnIssued)
    IN  /\ IF cnPhase = "rejected"
           THEN /\ cnPending' = rest
                /\ UNCHANGED <<cnPhase, cnIssued, cnError>>
           ELSE IF ~Found(ref)
           THEN /\ cnPhase' = "rejected"
                /\ cnError' = DoesNotExist(ref)
                /\ cnPending' = rest
                /\ UNCHANGED cnIssued
           ELSE IF rest # {}
           THEN /\ cnPending' = rest
                /\ UNCHANGED <<cnPhase, cnIssued, cnError>>
           ELSE /\ cnPhase' = next.phase
                /\ cnPending' = next.pending
                /\ cnIssued' = next.issued
                /\ UNCHANGED cnError
        /\ UNCHANGED <<cnReq, cnMsgId, messages, outsideCreate>>

\* lines 49-55: the insert returns the id of the new row
InsertReturns ==
  /\ cnPhase = "insert"
  /\ messages' = InsertRow(messages, cnReq.texts)
  /\ cnMsgId' = messages'[Len(messages')].id
  /\ cnPhase' = "done"
  /\ UNCHANGED <<cnReq, cnPending, cnIssued, cnError, outsideCreate>>

NextCreate ==
  \/ CreateNotification
  \/ CatalogReturns
  \/ InsertReturns

SpecCreate == Init /\ [][NextCreate]_<<messages, createVars>>

Targets(req) == Range(GroupRefs(req)) \cup Range(UserRefs(req))
IsUserLookup(ref) == ref[1] = "user"

\* C14: the row is inserted only after every target group and every target user
\* was found; a missing target makes the call reject with "<kind> '<name>' does
\* not exist" and leaves the table as it was; no user lookup is issued before
\* every group lookup has returned an entity.
C14_InsertOnlyAfterAllTargetsFound ==
  /\ [](/\ cnPhase \in {"insert", "done"}
          => /\ \A ref \in Targets(cnReq) : ref \in Catalog
             /\ Range(cnIssued) = Targets(cnReq)
             /\ cnPending = {}
        /\ cnPhase = "rejected"
          => /\ \E ref \in Targets(cnReq) \ Catalog : cnError = DoesNotExist(ref)
             /\ cnMsgId = NoMsgId
        /\ (\E i \in 1..Len(cnIssued) : IsUserLookup(cnIssued[i]))
          => \A ref \in Range(GroupRefs(cnReq)) :
               /\ ref \in Catalog
               /\ ref \notin cnPending
               /\ \E i \in 1..Len(cnIssued) :
                    /\ cnIssued[i] = ref
                    /\ \A j \in 1..i : ~IsUserLookup(cnIssued[j]))
  /\ [][/\ messages' # messages
          => /\ cnPhase = "insert"
             /\ cnPhase' = "done"
             /\ \A ref \in Targets(cnReq) : ref \in Catalog
        /\ cnPhase' = "rejected" => messages' = messages]_<<messages, createVars>>

C14_Witness ==
  /\ cnPhase = "rejected"
  /\ cnError = DoesNotExist(<<"user", "x">>)
  /\ cnReq.targetGroups.items = <<"a", "b">>
  /\ cnPending # {}
  /\ messages # <<>>

\* C17: a page query returns the window of the filtered rows at offset
\* (pageNumber - 1) * pageSize with at most pageSize entries; two queries for
\* different pages of the same size over the same table do not overlap, and
\* pages 1..n that are enough for the filtered rows cover them; a query with
\* pageSize = pageNumber = 0 returns as many rows as getNotificationsCount
\* counts.
IsPage(call) == call.called /\ call.queried /\ call.pageNumber > 0

C17_PagesPartitionTheFilteredRows ==
  /\ [](/\ IsPage(lastCall) /\ lastCall.version = Len(messages)
          => /\ Len(lastCall.rows) <= lastCall.pageSize
             /\ \E order \in Orders(FilteredIds(messages, filter)) :
                  lastCall.rows
                    = Window(order, lastCall.pageSize, lastCall.pageNumber)
        /\ /\ lastCall.called /\ lastCall.queried /\ lastCall.pageNumber = 0
           /\ lastCount.called
           /\ lastCall.version = lastCount.version
          => Len(lastCall.rows) = lastCount.count)
  /\ [][/\ IsPage(lastCall) /\ IsPage(lastCall')
        /\ lastCall.version = lastCall'.version
        /\ lastCall.pageSize = lastCall'.pageSize
        /\ lastCall.pageNumber # lastCall'.pageNumber
        => /\ Range(lastCall.rows) \cap Range(lastCall'.rows) = {}
           /\ {lastCall.pageNumber, lastCall'.pageNumber} = {1, 2}
              /\ 2 * lastCall.pageSize >= Cardinality(FilteredIds(messages, filter))
                => Range(lastCall.rows) \cup Range(lastCall'.rows)
                     = FilteredIds(messages, filter)]_<<messages, queryVars>>

\* ------------------------------------------------ notifications: router
outsideRouter ==
  <<vars, current, saved, messages, queryVars, createVars, sidebarVars>>

\* the handler throws: express-promise-router passes the error on
RouterThrow(error) ==
  /\ rPc' = "done"
  /\ rError' = error
  /\ UNCHANGED <<rUser, rPermission>>

\* getLoggedInUser returned; checkPermission asks permissions.authorize
CheckPermission(user) ==
  /\ rUser' = user
  /\ rPermission' = PermissionOf(rOp)
  /\ rPc' = "authorize"
  /\ UNCHANGED rError

\* a registered handler is called: getLoggedInUser asks for the identity
HandleOperation ==
  /\ rPc = "idle"
  /\ rOp' \in Operations
  /\ rS2S' \in BOOLEAN
  /\ rToken' \in BOOLEAN
  /\ rPc' = "getIdentity"
  /\ UNCHANGED <<rIdentity, rAuthenticated, rUser, rPermission, rDecision,
                 rError, rDb, outsideRouter>>

\* getLoggedInUser, lines 188-224, up to its return or the next await
IdentityReturns ==
  /\ rPc = "getIdentity"
  /\ \E identity \in IdentityResponses :
       /\ rIdentity' = identity
       /\ IF identity.present
          THEN IF HasAuthor(identity)
               THEN CheckPermission(User(StripUserPrefix(identity.userEntityRef)))
               ELSE RouterThrow(AuthenticationError)
          ELSE IF rS2S
          THEN IF ~rToken
               THEN RouterThrow(AuthenticationError)
               ELSE /\ rPc' = "authenticate"
                    /\ UNCHANGED <<rUser, rPermission, rError>>
          ELSE CheckPermission(User(DefaultServiceUser))
  /\ UNCHANGED <<rOp, rS2S, rToken, rAuthenticated, rDecision, rDb, outsideRouter>>

\* tokenManager.authenticate(token) resolves, lines 217-223
AuthenticateReturns ==
  /\ rPc = "authenticate"
  /\ rAuthenticated' = TRUE
  /\ CheckPermission(User(DefaultServiceUser))
  /\ UNCHANGED <<rOp, rS2S, rToken, rIdentity, rDecision, rDb, outsideRouter>>

\* permissions.authorize resolves, lines 240-245; on anything but a refusal
\* the handler goes on to its database operation
AuthorizeReturns ==
  /\ rPc = "authorize"
  /\ \E decision \in {Allow, Deny} :
       /\ rDecision' = decision
       /\ IF Denied(decision)
          THEN RouterThrow(NotAllowedError) /\ UNCHANGED rDb
          ELSE /\ rDb' = rOp
               /\ rPc' = "db"
               /\ UNCHANGED <<rUser, rPermission, rError>>
  /\ UNCHANGED <<rOp, rS2S, rToken, rIdentity, rAuthenticated, outsideRouter>>

\* the database operation settles: res.json(result) or next(error)
DbReturns ==
  /\ rPc = "db"
  /\ rPc' = "done"
  /\ UNCHANGED <<rOp, rS2S, rToken, rIdentity, rAuthenticated, rUser,
                 rPermission, rDecision, rError, rDb, outsideRouter>>

\* getIdentity, authenticate or authorize rejects
RouterCollaboratorRejects ==
  /\ rPc \in {"getIdentity", "authenticate", "authorize"}
  /\ RouterThrow(RejectedError)
  /\ UNCHANGED <<rOp, rS2S, rToken, rIdentity, rAuthenticated, rDecision, rDb,
                 outsideRouter>>

NextRouter ==
  \/ HandleOperation
  \/ IdentityReturns
  \/ AuthenticateReturns
  \/ AuthorizeReturns
  \/ DbReturns
  \/ RouterCollaboratorRejects

SpecRouter == Init /\ [][NextRouter]_routerVars

\* C15: a handler's database operation is invoked only after getLoggedInUser
\* returned a user and permissions.authorize answered without a refusal for the
\* handler's permission; on a refusal NotAllowedError is thrown and the
\* database operation is not invoked.
C15_DatabaseOnlyAfterPermission ==
  /\ rDb # NoOperation
       => /\ rDb = rOp
          /\ rUser.returned
          /\ rPermission = PermissionOf(rOp)
          /\ rDecision = Allow
          /\ rError = NoError
  /\ rPermission # NoPermission => rUser.returned
  /\ rDecision = Deny
       => /\ rError = NotAllowedError
          /\ rDb = NoOperation
          /\ rPc = "done"

C15_Witness ==
  /\ rDecision = Deny
  /\ rOp = "setRead"
  /\ rUser.returned
  /\ rPc = "done"

\* C16: getLoggedInUser returns the default service user only when there is no
\* identity, and with service-to-service authentication enabled only after a
\* token was present and authenticated (no token: AuthenticationError); with
\* an identity it returns userEntityRef without one leading "user:", and an
\* identity without userEntityRef gives AuthenticationError.
C16_LoggedInUser ==
  LET ref == rIdentity.userEntityRef
      resolved == rPc \notin {"idle", "getIdentity"} /\ rError # RejectedError
  IN  /\ rUser.returned /\ rIdentity.present
           => /\ rIdentity.hasRef
              /\ ref # <<>>
              /\ IF Len(ref) >= Len(UserPrefix)
                      /\ \A i \in 1..Len(UserPrefix) : ref[i] = UserPrefix[i]
                 THEN ref = <<"u", "s", "e", "r", ":">> \o rUser.name
                 ELSE rUser.name = ref
      /\ rUser.returned /\ ~rIdentity.present
           => /\ rUser.name = DefaultServiceUser
              /\ rS2S => rToken /\ rAuthenticated
      /\ rUser.returned /\ rUser.name = DefaultServiceUser => ~rIdentity.present
      /\ resolved /\ ~rIdentity.present /\ rS2S /\ ~rToken
           => rError = AuthenticationError /\ ~rUser.returned
      /\ resolved /\ rIdentity.present /\ ~rIdentity.hasRef
           => rError = AuthenticationError /\ ~rUser.returned

C16_Witness ==
  /\ rUser.returned
  /\ rIdentity.userEntityRef = UserPrefix \o UserPrefix \o <<"g">>
  /\ rUser.name = UserPrefix \o <<"g">>
  /\ rDb # NoOperation

\* ------------------------------------------- NotificationsSidebarItem
outsideSidebar ==
  <<vars, current, saved, messages, queryVars, createVars, routerVars>>

\* the component renders with its new state
Render(error, unreadCount) ==
  /\ sbIcon' = IconOf(error)
  /\ sbHasNotifications' = HasNotificationsOf(error, unreadCount)

\* usePollingEffect calls pollCallback, which asks for the unread count
Poll ==
  /\ sbPolls < MaxPolls
  /\ sbPolls' = sbPolls + 1
  /\ sbPending' = sbPending + 1
  /\ UNCHANGED <<sbError, sbUnreadCount, sbIcon, sbHasNotifications,
                 outsideSidebar>>

\* getUnreadCount resolves: setUnreadCount
PollReturns ==
  /\ sbPending > 0
  /\ sbPending' = sbPending - 1
  /\ \E count \in UnreadCounts :
       /\ sbUnreadCount' = count
       /\ Render(sbError, count)
  /\ UNCHANGED <<sbError, sbPolls, outsideSidebar>>

\* getUnreadCount rejects: setError
PollFails ==
  /\ sbPending > 0
  /\ sbPending' = sbPending - 1
  /\ \E e \in PollErrors :
       /\ sbError' = e
       /\ Render(e, sbUnreadCount)
  /\ UNCHANGED <<sbUnreadCount, sbPolls, outsideSidebar>>

NextSidebar ==
  \/ Poll
  \/ PollReturns
  \/ PollFails

SpecSidebar == Init /\ [][NextSidebar]_sidebarVars

\* C18: hasNotifications is set exactly when no error is recorded and the
\* unread count of the last successful poll is not 0; only a failed poll sets
\* the error, and once it is set it stays set, hasNotifications stays false
\* and the error icon stays shown whatever later polls return.
C18_ErrorIsSticky ==
  /\ [](/\ sbHasNotifications <=> (sbError = NoError /\ sbUnreadCount # 0)
        /\ sbIcon = NotificationsErrorIcon <=> sbError # NoError)
  /\ [][/\ sbError # NoError
             => /\ sbError' # NoError
                /\ ~sbHasNotifications'
                /\ sbIcon' = NotificationsErrorIcon
        /\ sbError' # sbError
             => /\ sbPending' = sbPending - 1
                /\ sbUnreadCount' = sbUnreadCount]_sidebarVars

C18_Witness ==
  /\ sbError # NoError
  /\ sbUnreadCount # 0
  /\ ~sbHasNotifications
  /\ sbIcon = NotificationsErrorIcon
  /\ sbPolls = MaxPolls
  /\ sbPending = 0

\* C19: the inputSchema handler ends either with exactly one response sent or
\* with an error thrown before any response; it never sends two responses and
\* calls no collaborator once a response has been sent.
C19_OneResponseOrThrow ==
  /\ [](/\ Len(sent) <= 1
        /\ sent # <<>> => thrown = NoError /\ pc = "done" /\ pending = {}
        /\ pc = "done"
             => \/ Len(sent) = 1 /\ thrown = NoError
                \/ sent = <<>> /\ thrown # NoError)
  /\ [][sent # <<>> => UNCHANGED <<sent, calls, thrown>>]_vars

C19_Witness ==
  /\ pc = "done"
  /\ Len(sent) = 1
  /\ sent[1] = NoInputSchemaResponse
  /\ Len(calls) >= 4

====
